---------------------------- MODULE Spec2Model ----------------------------
(***************************************************************************)
(* A model of speechbrain/processing/signal_processing.py: the EigenH      *)
(* codec (f, finv, g, ginv), the regulariser pos_def, the solver forward   *)
(* and convolve1d.                                                         *)
(*                                                                         *)
(* A tensor is a record [shape, at]: shape is the sequence of dimension    *)
(* sizes and at maps every index tuple (0-based entries, as in Python) to  *)
(* an integer.  A failed call is a record [error |-> <exception name>].    *)
(***************************************************************************)
EXTENDS Integers, Sequences, FiniteSets, TLC

VARIABLES
    input,   \* the caller-owned arguments of the call (buffers the callee may touch)
    orig,    \* the arguments as the caller built them (never written)
    hist,    \* the functions called so far, in order
    cur,     \* the value returned by the last call (a tensor, a result record or an error)
    locals   \* the last call's parameters and local values

vars == <<input, orig, hist, cur, locals>>

---------------------------------------------------------------------------
(* Bounds of the model *)

MaxBatch == 2
MaxFft == 2
MaxP == 3
MaxVal == 1
MaxAlpha == 2
MaxEps == 1

---------------------------------------------------------------------------
(* Tensors *)

\* the index tuples of a tensor of shape sh (rank 1 to 5)
Idx(sh) ==
    CASE Len(sh) = 1 -> {<<i>> : i \in 0..(sh[1] - 1)}
      [] Len(sh) = 2 -> (0..(sh[1] - 1)) \X (0..(sh[2] - 1))
      [] Len(sh) = 3 -> (0..(sh[1] - 1)) \X (0..(sh[2] - 1)) \X (0..(sh[3] - 1))
      [] Len(sh) = 4 -> (0..(sh[1] - 1)) \X (0..(sh[2] - 1)) \X (0..(sh[3] - 1))
                            \X (0..(sh[4] - 1))
      [] Len(sh) = 5 -> (0..(sh[1] - 1)) \X (0..(sh[2] - 1)) \X (0..(sh[3] - 1))
                            \X (0..(sh[4] - 1)) \X (0..(sh[5] - 1))

\* the tensor of shape sh with the entries fn, a function on Idx(sh); "@@ <<>>" leaves
\* the function as it is and makes TLC compute its entries once, when the tensor is built
Tensor(sh, fn) == [shape |-> sh, at |-> fn @@ <<>>]

Err(name) == [error |-> name]

IsError(x) == "error" \in DOMAIN x

IsTensor(x) == DOMAIN x = {"shape", "at"}

\* t.shape[d] with Python's 0-based d
Dim(t, d) == t.shape[d + 1]

Rank(t) == Len(t.shape)

Zeros(sh) == Tensor(sh, [ix \in Idx(sh) |-> 0])

SwapAt(s, i, j) == [k \in DOMAIN s |-> IF k = i THEN s[j] ELSE IF k = j THEN s[i] ELSE s[k]]

\* t.transpose(d0, d1)
Transpose(t, d0, d1) ==
    Tensor(SwapAt(t.shape, d0 + 1, d1 + 1),
           [ix \in Idx(SwapAt(t.shape, d0 + 1, d1 + 1)) |-> t.at[SwapAt(ix, d0 + 1, d1 + 1)]])

DropAt(s, i) == [k \in 1..(Len(s) - 1) |-> IF k < i THEN s[k] ELSE s[k + 1]]

InsertAt(s, i, v) ==
    [k \in 1..(Len(s) + 1) |-> IF k < i THEN s[k] ELSE IF k = i THEN v ELSE s[k - 1]]

\* t.squeeze(d): drops dimension d when its size is 1, else leaves t as it is
Squeeze(t, d) ==
    IF Dim(t, d) # 1 THEN t
    ELSE Tensor(DropAt(t.shape, d + 1), [ix \in Idx(DropAt(t.shape, d + 1)) |-> t.at[InsertAt(ix, d + 1, 0)]])

\* t[..., c]
SelectLast(t, c) ==
    Tensor(DropAt(t.shape, Len(t.shape)), [ix \in Idx(DropAt(t.shape, Len(t.shape))) |-> t.at[Append(ix, c)]])

\* k * t
Scale(k, t) == Tensor(t.shape, [ix \in Idx(t.shape) |-> k * t.at[ix]])

\* t + k
AddScalar(t, k) == Tensor(t.shape, [ix \in Idx(t.shape) |-> t.at[ix] + k])

Broadcastable_any(vshape, tshape) == Len(vshape) <= Len(tshape)

\* torch's broadcasting rule: trailing dimensions are aligned; each is equal or 1
Broadcastable(vshape, tshape) ==
    /\ Len(vshape) <= Len(tshape)
    /\ \A i \in 1..Len(vshape) :
          LET td == tshape[Len(tshape) - Len(vshape) + i]
          IN  vshape[i] = td \/ vshape[i] = 1

\* the entry of v that broadcasting puts at index ix of a tensor of v's rank
BroadcastAt(v, ix) ==
    v.at[[i \in 1..Len(ix) |-> IF v.shape[i] = 1 THEN 0 ELSE ix[i] % v.shape[i]]]

SetMax(S) == CHOOSE m \in S : \A x \in S : x <= m

\* torch.triu_indices(n, n): a 2 x n(n+1)/2 tensor, row 0 the row coordinates and
\* row 1 the column coordinates of the upper triangle, in row-major order
TriuPairs(n) == {pr \in (0..(n - 1)) \X (0..(n - 1)) : pr[1] <= pr[2]}

TriuRank(n, pr) ==
    Cardinality({q \in TriuPairs(n) : q[1] < pr[1] \/ (q[1] = pr[1] /\ q[2] < pr[2])})

TriuTensor(n) ==
    LET cnt == (n * (n + 1)) \div 2
        pairAt(p) == CHOOSE pr \in TriuPairs(n) : TriuRank(n, pr) = p
    IN  Tensor(<<2, cnt>>, [ix \in Idx(<<2, cnt>>) |-> pairAt(ix[2])[ix[1] + 1]])

\* the channel counts that occur: those of the packed counts up to MaxP + 1
TriuTable == [n \in 0..(MaxP + 1) |-> TriuTensor(n)]

triu_indices(n) == TriuTable[n]

\* t[r] of a 2-d tensor: a 1-d tensor
Row(t, r) == Tensor(<<t.shape[2]>>, [ix \in Idx(<<t.shape[2]>>) |-> t.at[<<r, ix[1]>>]])

\* slice(start, stop, step) as the 1-d tensor of the indices it selects
slice(start, stop, step) ==
    LET cnt == IF stop <= start THEN 0 ELSE ((stop - start - 1) \div step) + 1
    IN  Tensor(<<cnt>>, [ix \in Idx(<<cnt>>) |-> start + step * ix[1]])

\* the positions of a 1-d index tensor that hold the value v
Hits(idx, v) == {p \in 0..(idx.shape[1] - 1) : idx.at[<<p>>] = v}

\* wsh[..., rows, cols] = val with 1-d index tensors rows and cols (advanced
\* indexing: position p of the value goes to (rows[p], cols[p])); wsh is 4-d
IndexPut(wsh, rows, cols, val) ==
    IF IsError(wsh) THEN wsh
    ELSE IF ~Broadcastable(val.shape, <<wsh.shape[1], wsh.shape[2], rows.shape[1]>>)
    THEN Err("RuntimeError")
    ELSE Tensor(wsh.shape,
                [ix \in Idx(wsh.shape) |->
                    LET h == Hits(rows, ix[3]) \cap Hits(cols, ix[4])
                    IN  IF h = {} THEN wsh.at[ix]
                        ELSE BroadcastAt(val, <<ix[1], ix[2], SetMax(h)>>)])

\* wsh[..., rows, cols] with 1-d index tensors: a [B, K, len] tensor
IndexGet(wsh, rows, cols) ==
    Tensor(<<wsh.shape[1], wsh.shape[2], rows.shape[1]>>,
           [ix \in Idx(<<wsh.shape[1], wsh.shape[2], rows.shape[1]>>) |-> wsh.at[<<ix[1], ix[2], rows.at[<<ix[3]>>], cols.at[<<ix[3]>>]>>]])

\* wsh[..., rsl, csl] = val with slices rsl and csl (basic indexing: the block
\* of rows rsl and columns csl); wsh is 4-d
SlicePut(wsh, rsl, csl, val) ==
    IF IsError(wsh) THEN wsh
    ELSE IF ~Broadcastable(val.shape,
                           <<wsh.shape[1], wsh.shape[2], rsl.shape[1], csl.shape[1]>>)
    THEN Err("RuntimeError")
    ELSE Tensor(wsh.shape,
                [ix \in Idx(wsh.shape) |->
                    LET hr == Hits(rsl, ix[3])
                        hc == Hits(csl, ix[4])
                    IN  IF hr = {} \/ hc = {} THEN wsh.at[ix]
                        ELSE BroadcastAt(val, <<ix[1], ix[2], SetMax(hr), SetMax(hc)>>)])

\* wsh[..., rsl, csl] with slices: a [B, K, len(rsl), len(csl)] tensor
SliceGet(wsh, rsl, csl) ==
    Tensor(<<wsh.shape[1], wsh.shape[2], rsl.shape[1], csl.shape[1]>>,
           [ix \in Idx(<<wsh.shape[1], wsh.shape[2], rsl.shape[1], csl.shape[1]>>) |-> wsh.at[<<ix[1], ix[2], rsl.at[<<ix[3]>>], csl.at[<<ix[4]>>]>>]])

\* ws[..., c] = val
LastPut(ws, c, val) ==
    IF IsError(ws) THEN ws
    ELSE IF ~Broadcastable(val.shape, DropAt(ws.shape, Len(ws.shape)))
    THEN Err("RuntimeError")
    ELSE Tensor(ws.shape,
                [ix \in Idx(ws.shape) |->
                    IF ix[Len(ix)] = c THEN BroadcastAt(val, DropAt(ix, Len(ix)))
                    ELSE ws.at[ix]])

---------------------------------------------------------------------------
(* EigenH: the number of channels recovered from the packed count *)

\* int(round(((1 + 8 * p) ** 0.5 - 1) / 2)): the integer c nearest to
\* (sqrt(1 + 8p) - 1) / 2, that is the c with 2c <= sqrt(1 + 8p) < 2c + 2
\* (1 + 8p is odd, so the value is never half way between two integers)
n_channels_of(p) ==
    CHOOSE c \in 0..(p + 1) : 4 * c * c <= 1 + 8 * p /\ 1 + 8 * p < 4 * (c + 1) * (c + 1)

IsTriangular(p) == \E c \in 0..p : c * (c + 1) = 2 * p


\* fWrites with the write to (2j+1, 2i) storing +x instead of -x
fWrites_signSlip ==
    << [row |-> 1, roff |-> 0, col |-> 0, coff |-> 0, comp |-> 0, sign |-> 1],
       [row |-> 0, roff |-> 0, col |-> 1, coff |-> 0, comp |-> 0, sign |-> 1],
       [row |-> 1, roff |-> 1, col |-> 0, coff |-> 1, comp |-> 0, sign |-> 1],
       [row |-> 0, roff |-> 1, col |-> 1, coff |-> 1, comp |-> 0, sign |-> 1],
       [row |-> 0, roff |-> 0, col |-> 1, coff |-> 1, comp |-> 1, sign |-> -1],
       [row |-> 1, roff |-> 1, col |-> 0, coff |-> 0, comp |-> 1, sign |-> 1],
       [row |-> 0, roff |-> 1, col |-> 1, coff |-> 0, comp |-> 1, sign |-> 1],
       [row |-> 1, roff |-> 0, col |-> 0, coff |-> 1, comp |-> 1, sign |-> 1] >>

\* fWrites with the two +x writes made before the two -x writes
fWrites_reordered ==
    << [row |-> 1, roff |-> 0, col |-> 0, coff |-> 0, comp |-> 0, sign |-> 1],
       [row |-> 0, roff |-> 0, col |-> 1, coff |-> 0, comp |-> 0, sign |-> 1],
       [row |-> 1, roff |-> 1, col |-> 0, coff |-> 1, comp |-> 0, sign |-> 1],
       [row |-> 0, roff |-> 1, col |-> 1, coff |-> 1, comp |-> 0, sign |-> 1],
       [row |-> 0, roff |-> 1, col |-> 1, coff |-> 0, comp |-> 1, sign |-> 1],
       [row |-> 1, roff |-> 0, col |-> 0, coff |-> 1, comp |-> 1, sign |-> 1],
       [row |-> 0, roff |-> 0, col |-> 1, coff |-> 1, comp |-> 1, sign |-> -1],
       [row |-> 1, roff |-> 1, col |-> 0, coff |-> 0, comp |-> 1, sign |-> -1] >>

\* The eight index assignments of f, in program order.  Each writes sign * ws[..., comp]
\* to wsh[..., indices[row] * 2 + roff, indices[col] * 2 + coff].
fWrites ==
    << [row |-> 1, roff |-> 0, col |-> 0, coff |-> 0, comp |-> 0, sign |-> 1],
       [row |-> 0, roff |-> 0, col |-> 1, coff |-> 0, comp |-> 0, sign |-> 1],
       [row |-> 1, roff |-> 1, col |-> 0, coff |-> 1, comp |-> 0, sign |-> 1],
       [row |-> 0, roff |-> 1, col |-> 1, coff |-> 1, comp |-> 0, sign |-> 1],
       [row |-> 0, roff |-> 0, col |-> 1, coff |-> 1, comp |-> 1, sign |-> -1],
       [row |-> 1, roff |-> 1, col |-> 0, coff |-> 0, comp |-> 1, sign |-> -1],
       [row |-> 0, roff |-> 1, col |-> 1, coff |-> 0, comp |-> 1, sign |-> 1],
       [row |-> 1, roff |-> 0, col |-> 0, coff |-> 1, comp |-> 1, sign |-> 1] >>

\* wsh after the first n assignments of f
RECURSIVE fFill(_, _, _, _)
fFill(n, wsh0, ws, indices) ==
    IF n = 0 THEN wsh0
    ELSE LET w == fWrites[n]
             val == SelectLast(ws, w.comp)
         IN  IndexPut(fFill(n - 1, wsh0, ws, indices),
                      AddScalar(Scale(2, Row(indices, w.row)), w.roff),
                      AddScalar(Scale(2, Row(indices, w.col)), w.coff),
                      IF w.sign = 1 THEN val ELSE Scale(-1, val))

\* EigenH.f: packed [B, 1, K, 2, P] -> block [B, K, 2C, 2C]
f(ws0) ==
    LET ws == Squeeze(Transpose(ws0, 3, 4), 1)
        batch == Dim(ws, 0)
        n_fft == Dim(ws, 1)
        p == Dim(ws, 2)
        n_channels == n_channels_of(p)
        wsh == Zeros(<<batch, n_fft, 2 * n_channels, 2 * n_channels>>)
        indices == triu_indices(n_channels)
    IN  fFill(Len(fWrites), wsh, ws, indices)

\* ws[:, 0, :, c, :] = val, for a [B, 1, K, 2, P] tensor ws and a [B, K, P] value
PackedPut(ws, c, val) ==
    IF IsError(ws) THEN ws
    ELSE IF ~Broadcastable(val.shape, <<ws.shape[1], ws.shape[3], ws.shape[5]>>)
    THEN Err("RuntimeError")
    ELSE Tensor(ws.shape,
                [ix \in Idx(ws.shape) |->
                    IF ix[2] = 0 /\ ix[4] = c
                    THEN BroadcastAt(val, <<ix[1], ix[3], ix[5]>>)
                    ELSE ws.at[ix]])

\* finvImagCols without the + 1: the imaginary parts read from the real columns
finvImagCols_even(indices) == Scale(2, Row(indices, 1))

\* the column index tensor finv reads the imaginary parts from
finvImagCols(indices) == AddScalar(Scale(2, Row(indices, 1)), 1)

\* EigenH.finv: block [B, K, 2C, 2C] -> packed [B, 1, K, 2, P]
finv(wsh) ==
    LET batch == Dim(wsh, 0)
        n_fft == Dim(wsh, 1)
        n_channels == Dim(wsh, 2) \div 2
        p == (n_channels * (n_channels + 1)) \div 2
        ws == Zeros(<<batch, 1, n_fft, 2, p>>)
        indices == triu_indices(n_channels)
        re == IndexGet(wsh, Scale(2, Row(indices, 0)), Scale(2, Row(indices, 1)))
        im == Scale(-1, IndexGet(wsh, Scale(2, Row(indices, 0)), finvImagCols(indices)))
    IN  PackedPut(PackedPut(ws, 0, re), 1, im)

\* EigenH.g: full complex [B, K, C, C, 2] -> block [B, K, 2C, 2C]
g(ws) ==
    LET batch == Dim(ws, 0)
        n_fft == Dim(ws, 1)
        n_chan == Dim(ws, 2)
        wsh == Zeros(<<batch, n_fft, 2 * n_chan, 2 * n_chan>>)
        ev == slice(0, 2 * n_chan, 2)
        od == slice(1, 2 * n_chan, 2)
        w1 == SlicePut(wsh, ev, ev, SelectLast(ws, 0))
        w2 == SlicePut(w1, od, od, SelectLast(ws, 0))
        w3 == SlicePut(w2, ev, od, Scale(-1, SelectLast(ws, 1)))
    IN  SlicePut(w3, od, ev, SelectLast(ws, 1))

\* ginvImagRows starting at row 0: the imaginary parts read from the real rows
ginvImagRows_even(n_chan) == slice(0, 2 * n_chan, 2)

\* the row slice ginv reads the imaginary parts from
ginvImagRows(n_chan) == slice(1, 2 * n_chan, 2)

\* EigenH.ginv: block [B, K, 2C, 2C] -> full complex [B, K, C, C, 2]
ginv(wsh) ==
    LET batch == Dim(wsh, 0)
        n_fft == Dim(wsh, 1)
        n_chan == Dim(wsh, 2) \div 2
        ws == Zeros(<<batch, n_fft, n_chan, n_chan, 2>>)
        ev == slice(0, 2 * n_chan, 2)
        w1 == LastPut(ws, 0, SliceGet(wsh, ev, ev))
    IN  LastPut(w1, 1, SliceGet(wsh, ginvImagRows(n_chan), ev))


---------------------------------------------------------------------------
(* EigenH.pos_def *)

\* torch.eq(a, b) of two 1-d tensors: a 1-d boolean mask
Eq(a, b) == Tensor(a.shape, [ix \in Idx(a.shape) |-> a.at[ix] = b.at[ix]])

\* the positions a mask selects, in increasing order
MaskCount(mask) == Cardinality({p \in 0..(mask.shape[1] - 1) : mask.at[<<p>>]})

MaskPos(mask, j) ==
    CHOOSE p \in 0..(mask.shape[1] - 1) :
        /\ mask.at[<<p>>]
        /\ Cardinality({q \in 0..(p - 1) : mask.at[<<q>>]}) = j

\* a boolean mask indexes a dimension of its own length only
MaskFits(mask, size) == mask.shape[1] = size

\* ws[..., c, mask] of a 5-d tensor: a [B, 1, K, count] tensor
MaskGet(ws, c, mask) ==
    IF ~MaskFits(mask, ws.shape[5]) THEN Err("IndexError")
    ELSE Tensor(<<ws.shape[1], ws.shape[2], ws.shape[3], MaskCount(mask)>>,
                [ix \in Idx(<<ws.shape[1], ws.shape[2], ws.shape[3], MaskCount(mask)>>) |-> ws.at[<<ix[1], ix[2], ix[3], c, MaskPos(mask, ix[4])>>]])

\* ws[..., c, mask] += val
MaskAdd(ws, c, mask, val) ==
    IF ~MaskFits(mask, ws.shape[5]) THEN Err("IndexError")
    ELSE IF ~Broadcastable(val.shape,
                           <<ws.shape[1], ws.shape[2], ws.shape[3], MaskCount(mask)>>)
    THEN Err("RuntimeError")
    ELSE Tensor(ws.shape,
                [ix \in Idx(ws.shape) |->
                    IF ix[4] = c /\ mask.at[<<ix[5]>>]
                    THEN ws.at[ix]
                         + BroadcastAt(val, <<ix[1], ix[2], ix[3],
                                             Cardinality({q \in 0..(ix[5] - 1) : mask.at[<<q>>]})>>)
                    ELSE ws.at[ix]])

RECURSIVE SumTo(_, _, _)
SumTo(t, ix, n) == IF n = 0 THEN 0 ELSE SumTo(t, ix, n - 1) + t.at[Append(ix, n - 1)]

\* torch.sum(t, d) for the last dimension d of t
SumLast(t) ==
    Tensor(DropAt(t.shape, Len(t.shape)),
           [ix \in Idx(DropAt(t.shape, Len(t.shape))) |-> SumTo(t, ix, t.shape[Len(t.shape)])])

\* t.unsqueeze(3).repeat(1, 1, 1, n) of a 3-d tensor
UnsqueezeRepeat(t, n) == Tensor(Append(t.shape, n), [ix \in Idx(Append(t.shape, n)) |-> t.at[DropAt(ix, Len(ix))]])

\* clone that returns the buffer itself: ws_pf is another name of ws
clone_alias(store, ref) == [store |-> store, ref |-> ref]

\* ws.clone(): a new buffer that holds a copy of the buffer ref names
clone(store, ref) == [store |-> store @@ ("ws_pf" :> store[ref]), ref |-> "ws_pf"]

\* EigenH.pos_def on the buffer that ref names in store (a map from buffer
\* names to tensors): the store after the call and the buffer returned
pos_def(store, ref, alpha, eps) ==
    LET ws == store[ref]
        p == Dim(ws, 4)
        n_channels == n_channels_of(p)
        indices_triu == triu_indices(n_channels)
        indices_diag == Eq(Row(indices_triu, 0), Row(indices_triu, 1))
        diag == MaskGet(ws, 0, indices_diag)
    IN  IF IsError(diag) THEN [store |-> store, error |-> diag.error]
        ELSE LET trace == UnsqueezeRepeat(SumLast(diag), n_channels)
                 c == clone(store, ref)
                 sum == MaskAdd(c.store[c.ref], 0, indices_diag,
                                AddScalar(Scale(alpha, trace), eps))
             IN  IF IsError(sum) THEN [store |-> c.store, error |-> sum.error]
                 ELSE [store |-> [c.store EXCEPT ![c.ref] = sum], ret |-> c.ref]

---------------------------------------------------------------------------
(* The inputs *)

Vals == (-MaxVal)..MaxVal

RECURSIVE LinearIndex(_, _)
LinearIndex(ix, sh) ==
    IF Len(ix) = 0 THEN 0
    ELSE LET n == Len(ix)
         IN  LinearIndex(SubSeq(ix, 1, n - 1), SubSeq(sh, 1, n - 1)) * sh[n] + ix[n]

\* every entry different: 1, 2, 3, ... in row-major order
Ramp(sh) == Tensor(sh, [ix \in Idx(sh) |-> 1 + LinearIndex(ix, sh)])

\* the packed index of the upper-triangle pair (i, j) of a C x C matrix
PackedIndex(C, i, j) == TriuRank(C, <<i, j>>)

IsDiagPacked(P, p) == \E i \in 0..(n_channels_of(P) - 1) : PackedIndex(n_channels_of(P), i, i) = p

\* Ramp with the imaginary part of the diagonal packed entries zero: a Hermitian matrix
HermRamp(sh) ==
    Tensor(sh, [ix \in Idx(sh) |-> IF ix[4] = 1 /\ IsDiagPacked(sh[5], ix[5]) THEN 0
                           ELSE 1 + LinearIndex(ix, sh)])

Perturbed(base) ==
    {base} \cup {[base EXCEPT !.at[ix] = v] : ix \in DOMAIN base.at, v \in Vals}

PackedShapes == {<<B, 1, K, 2, P>> : B \in 1..MaxBatch, K \in 1..MaxFft, P \in 1..MaxP}

FullShapes ==
    {<<B, K, C, C, 2>> : B \in 1..MaxBatch, K \in 1..MaxFft, C \in 1..n_channels_of(MaxP)}

PackedInputs ==
    UNION {Perturbed(Zeros(sh)) \cup Perturbed(Ramp(sh)) \cup {HermRamp(sh)} :
           sh \in PackedShapes}

FullInputs == UNION {Perturbed(Zeros(sh)) \cup Perturbed(Ramp(sh)) : sh \in FullShapes}

NoValue == [none |-> TRUE]

---------------------------------------------------------------------------
(* The codec and the regulariser, each called on a fresh input *)

Init ==
    /\ input \in {[kind |-> "packed", ws |-> t] : t \in PackedInputs}
                \cup {[kind |-> "full", ws |-> t] : t \in FullInputs}
    /\ orig = input
    /\ hist = <<>>
    /\ cur = NoValue
    /\ locals = NoValue

CallF ==
    /\ hist = <<>>
    /\ input.kind = "packed"
    /\ cur' = f(input.ws)
    /\ hist' = <<"f">>
    /\ UNCHANGED <<input, orig, locals>>

CallFinv ==
    /\ hist = <<"f">>
    /\ IsTensor(cur)
    /\ cur' = finv(cur)
    /\ hist' = <<"f", "finv">>
    /\ UNCHANGED <<input, orig, locals>>

CallG ==
    /\ hist = <<>>
    /\ input.kind = "full"
    /\ cur' = g(input.ws)
    /\ hist' = <<"g">>
    /\ UNCHANGED <<input, orig, locals>>

CallGinv ==
    /\ hist = <<"g">>
    /\ IsTensor(cur)
    /\ cur' = ginv(cur)
    /\ hist' = <<"g", "ginv">>
    /\ UNCHANGED <<input, orig, locals>>

CallPosDef ==
    /\ hist = <<>>
    /\ input.kind = "packed"
    /\ \E alpha \in 1..MaxAlpha, eps \in 0..MaxEps :
          LET r == pos_def([ws |-> input.ws], "ws", alpha, eps)
          IN  /\ cur' = IF "error" \in DOMAIN r THEN Err(r.error) ELSE r.store[r.ret]
              /\ input' = [input EXCEPT !.ws = r.store.ws]
              /\ locals' = [alpha |-> alpha, eps |-> eps]
    /\ hist' = <<"pos_def">>
    /\ UNCHANGED orig

Next == CallF \/ CallFinv \/ CallG \/ CallGinv \/ CallPosDef

Spec == Init /\ [][Next]_vars


---------------------------------------------------------------------------
(* Dense linear algebra on one [n, n] matrix of a batch.  A matrix is a function *)
(* on (0..n-1) \X (0..n-1).  The arithmetic is exact integer arithmetic: a result *)
(* that is not an integer matrix is reported as "inexact", and the solver is not *)
(* run on such an input.                                                          *)

Matrix(n, fn) == fn @@ <<>>

MatIdx(n) == (0..(n - 1)) \X (0..(n - 1))

\* slice (b, k) of a [B, K, n, n] tensor
MatOf(t, b, k) == Matrix(t.shape[3], [rc \in MatIdx(t.shape[3]) |-> t.at[<<b, k, rc[1], rc[2]>>]])

RECURSIVE SumSeq(_)
SumSeq(q) == IF Len(q) = 0 THEN 0 ELSE q[1] + SumSeq(Tail(q))

MatMul(n, X, Y) ==
    Matrix(n, [rc \in MatIdx(n) |->
                  SumSeq([k \in 1..n |-> X[<<rc[1], k - 1>>] * Y[<<k - 1, rc[2]>>]])])

MatT(n, X) == Matrix(n, [rc \in MatIdx(n) |-> X[<<rc[2], rc[1]>>]])

ISqrt(x) == CHOOSE r \in 0..x : r * r <= x /\ x < (r + 1) * (r + 1)

\* torch.cholesky of one matrix (the lower triangle is read): the first j columns of
\* the factor L, by the Cholesky-Banachiewicz recurrences
RECURSIVE CholCols(_, _, _)
CholCols(M, n, j) ==
    IF j = 0 THEN [st |-> "ok", L |-> Matrix(n, [rc \in MatIdx(n) |-> 0])]
    ELSE LET prev == CholCols(M, n, j - 1)
             c == j - 1
             L == prev.L
             d == M[<<c, c>>] - SumSeq([k \in 1..c |-> L[<<c, k - 1>>] * L[<<c, k - 1>>]])
             r == ISqrt(d)
             num(i) == M[<<i, c>>] - SumSeq([k \in 1..c |-> L[<<i, k - 1>>] * L[<<c, k - 1>>]])
         IN  IF prev.st # "ok" THEN prev
             ELSE IF d <= 0 THEN [st |-> "notPD", L |-> L]
             ELSE IF r * r # d \/ \E i \in (c + 1)..(n - 1) : num(i) % r # 0
             THEN [st |-> "inexact", L |-> L]
             ELSE [st |-> "ok",
                   L |-> Matrix(n, [rc \in MatIdx(n) |->
                                     IF rc[2] # c THEN L[rc]
                                     ELSE IF rc[1] < c THEN 0
                                     ELSE IF rc[1] = c THEN r
                                     ELSE num(rc[1]) \div r])]

\* torch.inverse of a lower-triangular matrix: the first i rows, by forward substitution
RECURSIVE InvRows(_, _, _)
InvRows(L, n, i) ==
    IF i = 0 THEN [st |-> "ok", X |-> Matrix(n, [rc \in MatIdx(n) |-> 0])]
    ELSE LET prev == InvRows(L, n, i - 1)
             r == i - 1
             X == prev.X
             num(j) == IF j = r THEN 1
                       ELSE IF j > r THEN 0
                       ELSE -SumSeq([k \in 1..r |-> L[<<r, k - 1>>] * X[<<k - 1, j>>]])
         IN  IF prev.st # "ok" THEN prev
             ELSE IF L[<<r, r>>] = 0 THEN [st |-> "singular", X |-> X]
             ELSE IF \E j \in 0..(n - 1) : num(j) % L[<<r, r>>] # 0
             THEN [st |-> "inexact", X |-> X]
             ELSE [st |-> "ok",
                   X |-> Matrix(n, [rc \in MatIdx(n) |->
                                     IF rc[1] # r THEN X[rc]
                                     ELSE num(rc[2]) \div L[<<r, r>>]])]


\* the candidate eigenvector directions: the non-zero vectors with entries -1, 0, 1
\* whose first non-zero entry is 1
FirstNonZero(n, v) == CHOOSE i \in 0..(n - 1) : v[i] # 0 /\ \A j \in 0..(i - 1) : v[j] = 0

EigDirs(n) ==
    {v \in [0..(n - 1) -> {-1, 0, 1}] :
        /\ \E i \in 0..(n - 1) : v[i] # 0
        /\ v[FirstNonZero(n, v)] = 1}

EigDirTable == [n \in 1..(2 * n_channels_of(MaxP)) |-> EigDirs(n)]

Dot(n, u, v) == SumSeq([k \in 1..n |-> u[k - 1] * v[k - 1]])

MatVec(n, M, v) == [i \in 0..(n - 1) |-> SumSeq([k \in 1..n |-> M[<<i, k - 1>>] * v[k - 1]])] @@ <<>>

\* v with its image w = M v and the only lam that w = lam v allows
EigCandidate(n, v, w) ==
    [lam |-> w[FirstNonZero(n, v)], v |-> v, w |-> w]

\* the eigenpairs (lam, v) of M among the candidate directions
EigPairs(M, n) ==
    LET cands == {EigCandidate(n, v, MatVec(n, M, v)) : v \in EigDirTable[n]}
    IN  {[lam |-> c.lam, v |-> c.v] :
            c \in {q \in cands : \A i \in 0..(n - 1) : q.w[i] = q.lam * q.v[i]}}

\* n pairwise orthogonal eigenvectors, eigenvalues ascending: each step takes a
\* candidate of least eigenvalue among those orthogonal to the columns chosen so far
RECURSIVE EigBasis(_, _, _)
EigBasis(cands, n, cols) ==
    IF Len(cols) = n THEN cols
    ELSE LET nxt == {c \in cands : \A i \in 1..Len(cols) : Dot(n, c.v, cols[i].v) = 0}
         IN  IF nxt = {} THEN <<>>
             ELSE EigBasis(nxt, n,
                           Append(cols, CHOOSE c \in nxt : \A u \in nxt : c.lam <= u.lam))

\* torch.symeig(csh, eigenvectors=True) of one matrix: eigenvalues es ascending and a
\* matrix Y whose columns are pairwise orthogonal eigenvectors of common squared norm
\* s; the orthonormal matrix symeig returns is Y / sqrt(s).  The sign of an
\* eigenvector is not determined: column flip (if any) of Y is negated.
SymEig(M, n, flip) ==
    LET pairs == EigPairs(M, n)
        basis(s) == EigBasis({c \in pairs : Dot(n, c.v, c.v) = s}, n, <<>>)
        good == {s \in 1..n : Len(basis(s)) = n}
    IN  IF good = {} THEN [st |-> "inexact"]
        ELSE LET s == CHOOSE x \in good : \A y \in good : x <= y
                 cols == basis(s)
             IN  [st |-> "ok",
                  s |-> s,
                  es |-> [j \in 0..(n - 1) |-> cols[j + 1].lam] @@ <<>>,
                  Y |-> Matrix(n, [rc \in MatIdx(n) |->
                                     IF rc[2] = flip THEN -cols[rc[2] + 1].v[rc[1]]
                                     ELSE cols[rc[2] + 1].v[rc[1]]])]

---------------------------------------------------------------------------
(* The batched linear algebra calls of forward, on [B, K, n, n] tensors *)

Inexact == [inexact |-> TRUE]

IsInexact(x) == "inexact" \in DOMAIN x

Bad(x) == IsError(x) \/ IsInexact(x)

BatchIdx(t) == (0..(t.shape[1] - 1)) \X (0..(t.shape[2] - 1))

\* the [B, K, n, n] tensor of the matrices mats[<<b, k>>]
Stack(B, K, n, mats) ==
    LET m == mats @@ <<>>
    IN  Tensor(<<B, K, n, n>>,
               [ix \in Idx(<<B, K, n, n>>) |-> m[<<ix[1], ix[2]>>][<<ix[3], ix[4]>>]])

\* torch.cholesky(bsh): fails when a matrix of the batch is not positive definite
cholesky(bsh) ==
    IF Bad(bsh) THEN bsh
    ELSE LET n == bsh.shape[3]
             r == [sl \in BatchIdx(bsh) |-> CholCols(MatOf(bsh, sl[1], sl[2]), n, n)] @@ <<>>
         IN  IF \E sl \in BatchIdx(bsh) : r[sl].st = "notPD" THEN Err("RuntimeError")
             ELSE IF \E sl \in BatchIdx(bsh) : r[sl].st = "inexact" THEN Inexact
             ELSE Stack(bsh.shape[1], bsh.shape[2], n, [sl \in BatchIdx(bsh) |-> r[sl].L])

\* torch.inverse(lsh) of a batch of lower-triangular matrices
inverse(lsh) ==
    IF Bad(lsh) THEN lsh
    ELSE LET n == lsh.shape[3]
             r == [sl \in BatchIdx(lsh) |-> InvRows(MatOf(lsh, sl[1], sl[2]), n, n)] @@ <<>>
         IN  IF \E sl \in BatchIdx(lsh) : r[sl].st = "singular" THEN Err("RuntimeError")
             ELSE IF \E sl \in BatchIdx(lsh) : r[sl].st = "inexact" THEN Inexact
             ELSE Stack(lsh.shape[1], lsh.shape[2], n, [sl \in BatchIdx(lsh) |-> r[sl].X])

\* torch.transpose(x, 2, 3)
transpose23(x) == IF Bad(x) THEN x ELSE Transpose(x, 2, 3)

\* torch.matmul(x, y) of two batches of square matrices
matmul(x, y) ==
    IF Bad(x) THEN x
    ELSE IF Bad(y) THEN y
    ELSE IF x.shape # y.shape THEN Err("RuntimeError")
    ELSE Stack(x.shape[1], x.shape[2], x.shape[3],
               [sl \in BatchIdx(x) |->
                   MatMul(x.shape[3], MatOf(x, sl[1], sl[2]), MatOf(y, sl[1], sl[2]))])

\* torch.symeig(csh, eigenvectors=True): es is [B, K, n], ysh is [B, K, n, n] and
\* scale is the [B, K] tensor of the squared column norms of ysh
symeig(csh, flip) ==
    IF Bad(csh) THEN csh
    ELSE LET n == csh.shape[3]
             B == csh.shape[1]
             K == csh.shape[2]
             r == [sl \in BatchIdx(csh) |-> SymEig(MatOf(csh, sl[1], sl[2]), n, flip)] @@ <<>>
         IN  IF \E sl \in BatchIdx(csh) : r[sl].st = "inexact" THEN Inexact
             ELSE [es |-> Tensor(<<B, K, n>>,
                                 [ix \in Idx(<<B, K, n>>) |-> r[<<ix[1], ix[2]>>].es[ix[3]]]),
                   ysh |-> Stack(B, K, n, [sl \in BatchIdx(csh) |-> r[sl].Y]),
                   scale |-> Tensor(<<B, K>>, [ix \in Idx(<<B, K>>) |-> r[ix].s])]

---------------------------------------------------------------------------
(* EigenH.forward *)

DefaultB_swapped(batch, n_fft, n_channels) ==
    [shape |-> <<batch, n_fft, n_channels, n_channels, 2>>,
     at |-> [ix \in Idx(<<batch, n_fft, n_channels, n_channels, 2>>) |->
                IF ix[5] = 1 /\ ix[3] = ix[4] THEN 1 ELSE 0] @@ <<>>]

\* the default b: torch.stack((eye, zeros), -1) stacked n_fft and batch times
DefaultB(batch, n_fft, n_channels) ==
    Tensor(<<batch, n_fft, n_channels, n_channels, 2>>,
           [ix \in Idx(<<batch, n_fft, n_channels, n_channels, 2>>) |->
               IF ix[5] = 0 /\ ix[3] = ix[4] THEN 1 ELSE 0])

\* bsh: the default b goes through g, a given b through f
EncodeB(b, batch, n_fft, n_channels) ==
    IF b = NoValue THEN g(DefaultB(batch, n_fft, n_channels)) ELSE f(b)

DiagPut_reversed(batch, n_fft, n, es) ==
    IndexPut(Zeros(<<batch, n_fft, n, n>>), slice(0, n, 1), slice(0, n, 1),
             Tensor(es.shape, [ix \in Idx(es.shape) |->
                                  es.at[<<ix[1], ix[2], n - 1 - ix[3]>>]]))

\* dsh = zeros; dsh[:, :, range(0, 2C), range(0, 2C)] = es
DiagPut(batch, n_fft, n, es) ==
    IndexPut(Zeros(<<batch, n_fft, n, n>>), slice(0, n, 1), slice(0, n, 1), es)

\* vsh = torch.matmul(lsh_inv_T, torch.transpose(ysh, 2, 3))
Unwhiten(lsh_inv_T, ysh) == matmul(lsh_inv_T, transpose23(ysh))

\* EigenH.forward(a, b), b = NoValue for None; flip is the eigensolver's choice of sign.
\* vs is returned as the integer tensor vs * sqrt(scale).
forward(a, b, flip) ==
    LET batch == Dim(a, 0)
        n_fft == Dim(a, 2)
        p == Dim(a, 4)
        n_channels == n_channels_of(p)
        ash == f(a)
        bsh == EncodeB(b, batch, n_fft, n_channels)
        lsh == cholesky(bsh)
        lsh_inv == inverse(lsh)
        lsh_inv_T == transpose23(lsh_inv)
        csh == matmul(lsh_inv, matmul(ash, lsh_inv_T))
        eig == symeig(csh, flip)
        dsh == DiagPut(batch, n_fft, 2 * n_channels, eig.es)
        vsh == Unwhiten(lsh_inv_T, eig.ysh)
    IN  IF IsError(ash) THEN [ret |-> ash]
        ELSE IF IsError(bsh) THEN [ret |-> bsh]
        ELSE IF Bad(lsh) THEN [ret |-> lsh]
        ELSE IF Bad(lsh_inv) THEN [ret |-> lsh_inv]
        ELSE IF Bad(csh) THEN [ret |-> csh]
        ELSE IF Bad(eig) THEN [ret |-> eig]
        ELSE IF Bad(dsh) THEN [ret |-> dsh]
        ELSE IF Bad(vsh) THEN [ret |-> vsh]
        ELSE [ret |-> [vs |-> ginv(vsh), ds |-> ginv(dsh), scale |-> eig.scale],
              es |-> eig.es, ysh |-> eig.ysh, ash |-> ash, bsh |-> bsh, csh |-> csh,
              lsh |-> lsh]


---------------------------------------------------------------------------
(* forward, f and pos_def, each called on a fresh packed input *)

\* the packed identity: real part 1 on the diagonal packed entries, all else 0
PackedEye(sh) ==
    Tensor(sh, [ix \in Idx(sh) |-> IF ix[4] = 0 /\ IsDiagPacked(sh[5], ix[5]) THEN 1 ELSE 0])

\* a positive definite reference that is not the identity:
\* b[0][1] = i, b[1][0] = -i, b[1][1] = 2, the other diagonal entries 1
PackedSkew(sh) ==
    LET C == n_channels_of(sh[5])
    IN  Tensor(sh, [ix \in Idx(sh) |->
            IF C < 2 THEN (IF ix[4] = 0 THEN 1 ELSE 0)
            ELSE IF ix[4] = 0 /\ ix[5] = PackedIndex(C, 1, 1) THEN 2
            ELSE IF ix[4] = 0 /\ IsDiagPacked(sh[5], ix[5]) THEN 1
            ELSE IF ix[4] = 1 /\ ix[5] = PackedIndex(C, 0, 1) THEN 1
            ELSE 0])

\* base with one entry of its last batch item and bin set to MaxVal or -MaxVal
PerturbedLast(base) ==
    {base} \cup {[base EXCEPT !.at[ix] = v] :
                    ix \in {x \in DOMAIN base.at : /\ x[1] = base.shape[1] - 1
                                                    /\ x[3] = base.shape[3] - 1},
                    v \in {-MaxVal, MaxVal}}

ForwardInputs ==
    UNION {PerturbedLast(Zeros(sh)) \cup PerturbedLast(PackedEye(sh)) \cup {PackedSkew(sh)} :
           sh \in PackedShapes}

\* the values of the argument b: None, or a packed tensor of the shape of a
BChoices(sh) == {NoValue, PackedEye(sh), PackedSkew(sh), Zeros(sh)}

\* the eigensolver's choice of sign: no column (-1), or the first column, of ysh negated
FlipChoices == {-1, 0}

InitForward ==
    /\ input \in {[kind |-> "packed", ws |-> t] : t \in ForwardInputs}
    /\ orig = input
    /\ hist = <<>>
    /\ cur = NoValue
    /\ locals = NoValue

CallForward ==
    /\ hist = <<>>
    /\ input.kind = "packed"
    /\ \E b \in BChoices(input.ws.shape), flip \in FlipChoices :
          \E r \in {forward(input.ws, b, flip)} :
              /\ ~IsInexact(r.ret)
              /\ cur' = r.ret
              /\ locals' = IF IsError(r.ret) THEN [b |-> b, flip |-> flip]
                           ELSE [b |-> b, flip |-> flip, es |-> r.es, ysh |-> r.ysh,
                                 bsh |-> r.bsh]
    /\ hist' = <<"forward">>
    /\ UNCHANGED <<input, orig>>

NextForward == CallForward \/ CallF \/ CallPosDef

SpecForward == InitForward /\ [][NextForward]_vars
---------------------------------------------------------------------------
(* convolve1d.  The waveform is [batch, time, channels] and the kernel is      *)
(* [1, length, channels]; pad_type is "constant" and groups is 1.              *)

MaxTime == 4
MaxKernel == 3
MaxPad == 1
MaxStride == 2
MaxRot == 1

SetMin(S) == CHOOSE m \in S : \A x \in S : m <= x

\* torch.nn.functional.pad(input=t, pad=(left, right), mode="constant") of a 3-d tensor
pad(t, left, right) ==
    Tensor(<<t.shape[1], t.shape[2], t.shape[3] + left + right>>,
           [ix \in Idx(<<t.shape[1], t.shape[2], t.shape[3] + left + right>>) |->
               IF ix[3] < left \/ ix[3] >= left + t.shape[3] THEN 0
               ELSE t.at[<<ix[1], ix[2], ix[3] - left>>]])

\* the position a Python slice bound i denotes in a dimension of size n
SliceBound(i, n) == IF i < 0 THEN SetMax({0, n + i}) ELSE SetMin({i, n})

\* t[..., start:stop] of a 3-d tensor
SliceLast(t, start, stop) ==
    LET lo == SliceBound(start, t.shape[3])
        hi == SetMax({lo, SliceBound(stop, t.shape[3])})
    IN  Tensor(<<t.shape[1], t.shape[2], hi - lo>>,
               [ix \in Idx(<<t.shape[1], t.shape[2], hi - lo>>) |->
                   t.at[<<ix[1], ix[2], lo + ix[3]>>]])

\* torch.cat((x, y, z), dim=-1) of 3-d tensors that agree in the first two dimensions
cat(x, y, z) ==
    Tensor(<<x.shape[1], x.shape[2], x.shape[3] + y.shape[3] + z.shape[3]>>,
           [ix \in Idx(<<x.shape[1], x.shape[2], x.shape[3] + y.shape[3] + z.shape[3]>>) |->
               IF ix[3] < x.shape[3] THEN x.at[ix]
               ELSE IF ix[3] < x.shape[3] + y.shape[3]
                    THEN y.at[<<ix[1], ix[2], ix[3] - x.shape[3]>>]
               ELSE z.at[<<ix[1], ix[2], ix[3] - x.shape[3] - y.shape[3]>>]])

\* the kernel cut to the signal length, rotated and filled with zeros up to it
AlignKernel(kernel, length, rotation_index) ==
    LET zero_length == length - kernel.shape[3]
        cut == IF zero_length < 0 THEN SliceLast(kernel, 0, zero_length) ELSE kernel
        zeros == Zeros(<<kernel.shape[1], kernel.shape[2], SetMax({zero_length, 0})>>)
        after_index == SliceLast(cut, rotation_index, cut.shape[3])
        before_index == SliceLast(cut, 0, rotation_index)
    IN  cat(after_index, zeros, before_index)

\* a tensor of real numbers the integers of the model do not represent: its shape only
ShapeOnly(sh) == [shape |-> sh, reals |-> TRUE]

\* torch.irfft(rfft(waveform) * rfft(kernel)): rfft keeps n \div 2 + 1 bins of a
\* signal of length n and irfft returns 2 (bins - 1) samples.  For even n that is
\* the circular convolution of length n; for odd n it is a signal of length n - 1.
SpectralProduct(waveform, kernel) ==
    LET n == waveform.shape[3]
        bins == (n \div 2) + 1
        out == 2 * (bins - 1)
        sh == <<waveform.shape[1], waveform.shape[2], out>>
    IN  IF ~Broadcastable(kernel.shape, waveform.shape) THEN Err("RuntimeError")
        ELSE IF out # n THEN ShapeOnly(sh)
        ELSE Tensor(sh, [ix \in Idx(sh) |->
                 SumSeq([m \in 1..n |->
                     waveform.at[<<ix[1], ix[2], m - 1>>]
                       * BroadcastAt(kernel, <<ix[1], ix[2], (ix[3] - (m - 1)) % n>>)])])

\* the use_fft branch: the result cut to the signal length when it is longer
FftPath(waveform, kernel, rotation_index) ==
    LET convolved == SpectralProduct(waveform,
                                     AlignKernel(kernel, waveform.shape[3], rotation_index))
    IN  IF IsError(convolved) THEN convolved
        ELSE IF convolved.shape[3] > waveform.shape[3]
             THEN SliceLast(convolved, 0, waveform.shape[3])
        ELSE convolved

\* torch.nn.functional.conv1d(input, weight, stride=stride, groups=1, padding=padding):
\* the sliding product of the zero-padded input with the weight, the weight not flipped
conv1d(t, weight, stride, padding) ==
    LET n == t.shape[3] + 2 * padding
        K == weight.shape[3]
        Cin == weight.shape[2]
        sh == <<t.shape[1], weight.shape[1], ((n - K) \div stride) + 1>>
        padded == pad(t, padding, padding)
    IN  IF t.shape[2] # Cin \/ n < K THEN Err("RuntimeError")
        ELSE Tensor(sh, [ix \in Idx(sh) |->
                 SumSeq([m \in 1..(Cin * K) |->
                     padded.at[<<ix[1], (m - 1) \div K, ix[3] * stride + ((m - 1) % K)>>]
                       * weight.at[<<ix[2], (m - 1) \div K, (m - 1) % K>>]])])

\* convolved.transpose(2, 1)
TimeSecond(convolved) ==
    IF IsError(convolved) THEN convolved
    ELSE IF "reals" \in DOMAIN convolved
         THEN ShapeOnly(<<convolved.shape[1], convolved.shape[3], convolved.shape[2]>>)
    ELSE Transpose(convolved, 2, 1)

\* padding is [tuple |-> TRUE, left, right] for (left, right) and
\* [tuple |-> FALSE, left |-> n, right |-> n] for the integer n
convolve1d(waveform, kernel, padding, stride, use_fft, rotation_index) ==
    IF Rank(waveform) # 3 THEN Err("ValueError")
    ELSE LET moved == Transpose(waveform, 2, 1)
             weight == Transpose(kernel, 2, 1)
             padded == IF padding.tuple THEN pad(moved, padding.left, padding.right)
                       ELSE moved
         IN  TimeSecond(IF use_fft THEN FftPath(padded, weight, rotation_index)
                        ELSE conv1d(padded, weight, stride,
                                    IF padding.tuple THEN 0 ELSE padding.left))

WaveShapes == {<<B, T, 1>> : B \in 1..MaxBatch, T \in 2..MaxTime}

WaveInputs ==
    UNION {{Ramp(sh), Scale(-1, Ramp(sh)), Zeros(sh)} : sh \in WaveShapes}
        \cup {Ramp(<<1, MaxTime>>)}

Kernels == {Ramp(<<1, K, 1>>) : K \in 1..MaxKernel}

Paddings ==
    {[tuple |-> FALSE, left |-> n, right |-> n] : n \in 0..MaxPad}
        \cup {[tuple |-> TRUE, left |-> l, right |-> r] : l \in 0..MaxPad, r \in 0..MaxPad}

InitConv ==
    /\ input \in {[kind |-> "wave", ws |-> t] : t \in WaveInputs}
    /\ orig = input
    /\ hist = <<>>
    /\ cur = NoValue
    /\ locals = NoValue

CallConvolve1d ==
    /\ hist = <<>>
    /\ input.kind = "wave"
    /\ \E kernel \in Kernels, padding \in Paddings, stride \in 1..MaxStride,
          use_fft \in BOOLEAN, rotation_index \in 0..MaxRot :
          /\ cur' = convolve1d(input.ws, kernel, padding, stride, use_fft, rotation_index)
          /\ locals' = [kernel |-> kernel, padding |-> padding, stride |-> stride,
                        use_fft |-> use_fft, rotation_index |-> rotation_index]
    /\ hist' = <<"convolve1d">>
    /\ UNCHANGED <<input, orig>>

NextConv == CallConvolve1d

SpecConv == InitConv /\ [][NextConv]_vars

---------------------------------------------------------------------------
(* Properties of the codec and of pos_def *)

Packed0 == orig.ws

P0 == Packed0.shape[5]

C0 == n_channels_of(P0)

\* real and imaginary part of packed entry p of slice (b, k)
Re(t, b, k, p) == t.at[<<b, 0, k, 0, p>>]

Im(t, b, k, p) == t.at[<<b, 0, k, 1, p>>]

DiagImagZero(t) ==
    \A b \in 0..(t.shape[1] - 1), k \in 0..(t.shape[3] - 1), p \in 0..(t.shape[5] - 1) :
        IsDiagPacked(t.shape[5], p) => Im(t, b, k, p) = 0

PackedSlices(t) == (0..(t.shape[1] - 1)) \X (0..(t.shape[3] - 1))

\* C1: for every full complex [B,K,C,C,2] input w (no symmetry assumed), ginv(g(w))
\* has the shape of w and equals w entry for entry.
C1_RoundTripG ==
    hist = <<"g", "ginv">> =>
        /\ IsTensor(cur)
        /\ cur.shape = orig.ws.shape
        /\ \A ix \in DOMAIN orig.ws.at : cur.at[ix] = orig.ws.at[ix]

\* a 2 x 2 input that is not Hermitian and has non-zero imaginary parts went round
C1_Witness ==
    /\ hist = <<"g", "ginv">>
    /\ IsTensor(cur)
    /\ orig.ws.shape[3] = 2
    /\ \E b \in 0..(orig.ws.shape[1] - 1), k \in 0..(orig.ws.shape[2] - 1) :
          /\ orig.ws.at[<<b, k, 0, 1, 1>>] # 0
          /\ orig.ws.at[<<b, k, 0, 1, 1>>] # -orig.ws.at[<<b, k, 1, 0, 1>>]
          /\ orig.ws.at[<<b, k, 0, 1, 0>>] # orig.ws.at[<<b, k, 1, 0, 0>>]

\* C2: for packed input with P = C(C+1)/2 whose diagonal packed entries have zero
\* imaginary part, f returns a [B,K,2C,2C] matrix M with M[b,k,r,c] = M[b,k,c,r].
C2_FSymmetric ==
    (hist = <<"f">> /\ IsTriangular(P0) /\ DiagImagZero(Packed0)) =>
        /\ IsTensor(cur)
        /\ cur.shape = <<Packed0.shape[1], Packed0.shape[3], 2 * C0, 2 * C0>>
        /\ \A b \in 0..(cur.shape[1] - 1), k \in 0..(cur.shape[2] - 1),
              r \in 0..(2 * C0 - 1), c \in 0..(2 * C0 - 1) :
              cur.at[<<b, k, r, c>>] = cur.at[<<b, k, c, r>>]

\* a 2-channel Hermitian input with a non-zero off-diagonal imaginary part was encoded
C2_Witness ==
    /\ hist = <<"f">>
    /\ IsTensor(cur)
    /\ P0 = 3
    /\ DiagImagZero(Packed0)
    /\ \E sl \in PackedSlices(Packed0) : Im(Packed0, sl[1], sl[2], 1) # 0

\* the index rule of f at the pair (i, j), packed index p, of slice (b, k)
RuleRealAt(M, b, k, i, j, r) ==
    /\ M.at[<<b, k, 2 * i, 2 * j>>] = r
    /\ M.at[<<b, k, 2 * j, 2 * i>>] = r
    /\ M.at[<<b, k, 2 * i + 1, 2 * j + 1>>] = r
    /\ M.at[<<b, k, 2 * j + 1, 2 * i + 1>>] = r

RuleImagAt(M, b, k, i, j, x) ==
    /\ M.at[<<b, k, 2 * i, 2 * j + 1>>] = -x
    /\ M.at[<<b, k, 2 * j + 1, 2 * i>>] = -x
    /\ M.at[<<b, k, 2 * i + 1, 2 * j>>] = x
    /\ M.at[<<b, k, 2 * j, 2 * i + 1>>] = x

\* C8 as stated: the rule holds at every pair i <= j, the diagonal pairs included.
C8_IndexRuleAllPairs ==
    (hist = <<"f">> /\ IsTriangular(P0)) =>
        /\ IsTensor(cur)
        /\ \A sl \in PackedSlices(Packed0), pr \in TriuPairs(C0) :
              LET p == PackedIndex(C0, pr[1], pr[2])
              IN  /\ RuleRealAt(cur, sl[1], sl[2], pr[1], pr[2], Re(Packed0, sl[1], sl[2], p))
                  /\ RuleImagAt(cur, sl[1], sl[2], pr[1], pr[2], Im(Packed0, sl[1], sl[2], p))

\* C8 as amended: the rule holds at every pair i < j; at a diagonal pair i = j the
\* block holds r at (2i,2i) and (2i+1,2i+1) and x at both (2i,2i+1) and (2i+1,2i).
C8_IndexRule ==
    (hist = <<"f">> /\ IsTriangular(P0)) =>
        /\ IsTensor(cur)
        /\ \A sl \in PackedSlices(Packed0), pr \in TriuPairs(C0) :
              LET p == PackedIndex(C0, pr[1], pr[2])
                  r == Re(Packed0, sl[1], sl[2], p)
                  x == Im(Packed0, sl[1], sl[2], p)
              IN  /\ RuleRealAt(cur, sl[1], sl[2], pr[1], pr[2], r)
                  /\ pr[1] < pr[2] => RuleImagAt(cur, sl[1], sl[2], pr[1], pr[2], x)
                  /\ pr[1] = pr[2] =>
                        /\ cur.at[<<sl[1], sl[2], 2 * pr[1], 2 * pr[1] + 1>>] = x
                        /\ cur.at[<<sl[1], sl[2], 2 * pr[1] + 1, 2 * pr[1]>>] = x

\* a 2-channel input whose diagonal and off-diagonal imaginary parts are non-zero
\* was encoded
C8_Witness ==
    /\ hist = <<"f">>
    /\ IsTensor(cur)
    /\ P0 = 3
    /\ \E sl \in PackedSlices(Packed0) :
          /\ Im(Packed0, sl[1], sl[2], 0) # 0
          /\ Im(Packed0, sl[1], sl[2], 1) # 0
          /\ Re(Packed0, sl[1], sl[2], 1) # 0

\* C9 as stated: finv(f(a)) equals a entry for entry, whatever the values of a.
C9_FinvLeftInverseAll ==
    hist = <<"f", "finv">> => cur = Packed0

\* C9 as amended: finv(f(a)) has the shape of a, the real parts of a at every packed
\* index, the imaginary parts of a at every off-diagonal packed index and the negated
\* imaginary parts of a at every diagonal packed index.
C9_FinvLeftInverse ==
    hist = <<"f", "finv">> =>
        /\ IsTensor(cur)
        /\ cur.shape = Packed0.shape
        /\ \A sl \in PackedSlices(Packed0), p \in 0..(P0 - 1) :
              /\ Re(cur, sl[1], sl[2], p) = Re(Packed0, sl[1], sl[2], p)
              /\ Im(cur, sl[1], sl[2], p) =
                    IF IsDiagPacked(P0, p) THEN -Im(Packed0, sl[1], sl[2], p)
                    ELSE Im(Packed0, sl[1], sl[2], p)

\* a 2-channel input with non-zero diagonal and off-diagonal imaginary parts went
\* through f and finv
C9_Witness ==
    /\ hist = <<"f", "finv">>
    /\ IsTensor(cur)
    /\ P0 = 3
    /\ \E sl \in PackedSlices(Packed0) :
          /\ Im(Packed0, sl[1], sl[2], 2) # 0
          /\ Im(Packed0, sl[1], sl[2], 1) # 0

RECURSIVE DiagTrace(_, _, _, _)
\* the sum of the real parts of the first n diagonal packed entries of slice (b, k)
DiagTrace(t, b, k, n) ==
    IF n = 0 THEN 0
    ELSE DiagTrace(t, b, k, n - 1)
         + Re(t, b, k, PackedIndex(n_channels_of(t.shape[5]), n - 1, n - 1))

\* C5: pos_def leaves its input as it was and returns a tensor equal to it except
\* that the real part of every diagonal packed entry of slice (b, k) is increased by
\* alpha * trace + eps, trace the sum of the real diagonal entries of that slice.
C5_PosDefFrame ==
    hist = <<"pos_def">> =>
        /\ input = orig
        /\ IsTriangular(P0) =>
              /\ IsTensor(cur)
              /\ cur.shape = Packed0.shape
              /\ \A sl \in PackedSlices(Packed0), p \in 0..(P0 - 1) :
                    /\ Im(cur, sl[1], sl[2], p) = Im(Packed0, sl[1], sl[2], p)
                    /\ Re(cur, sl[1], sl[2], p) =
                          Re(Packed0, sl[1], sl[2], p)
                          + (IF IsDiagPacked(P0, p)
                             THEN locals.alpha * DiagTrace(Packed0, sl[1], sl[2], C0)
                                  + locals.eps
                             ELSE 0)

\* pos_def was called on a 2-channel batch of more than one slice, two slices of
\* different trace, and changed a diagonal entry
C5_Witness ==
    /\ hist = <<"pos_def">>
    /\ IsTensor(cur)
    /\ P0 = 3
    /\ \E s1 \in PackedSlices(Packed0), s2 \in PackedSlices(Packed0) :
          /\ DiagTrace(Packed0, s1[1], s1[2], 2) # DiagTrace(Packed0, s2[1], s2[2], 2)
          /\ Re(Packed0, s1[1], s1[2], 0) # 0
          /\ Re(Packed0, s1[1], s1[2], 2) # 0
          /\ Re(cur, s1[1], s1[2], 0) # Re(Packed0, s1[1], s1[2], 0)

---------------------------------------------------------------------------
(* Properties of forward *)

\* a complex C x C matrix is a function from <<i, j>> to <<re, im>>
CIdx(C) == (0..(C - 1)) \X (0..(C - 1))

\* the Hermitian matrix a packed tensor stands for, at batch item b and bin k
FullHerm(t, b, k) ==
    LET C == n_channels_of(t.shape[5])
    IN  [ij \in CIdx(C) |->
            IF ij[1] <= ij[2]
            THEN <<Re(t, b, k, PackedIndex(C, ij[1], ij[2])),
                   Im(t, b, k, PackedIndex(C, ij[1], ij[2]))>>
            ELSE <<Re(t, b, k, PackedIndex(C, ij[2], ij[1])),
                   -Im(t, b, k, PackedIndex(C, ij[2], ij[1]))>>] @@ <<>>

\* the matrix of a [B, K, C, C, 2] tensor at batch item b and bin k
FullAt(t, b, k) ==
    [ij \in CIdx(t.shape[3]) |->
        <<t.at[<<b, k, ij[1], ij[2], 0>>], t.at[<<b, k, ij[1], ij[2], 1>>]>>] @@ <<>>

CEye(C, s) == [ij \in CIdx(C) |-> IF ij[1] = ij[2] THEN <<s, 0>> ELSE <<0, 0>>] @@ <<>>

CMul(C, X, Y) ==
    [ij \in CIdx(C) |->
        <<SumSeq([m \in 1..C |-> X[<<ij[1], m - 1>>][1] * Y[<<m - 1, ij[2]>>][1]
                                  - X[<<ij[1], m - 1>>][2] * Y[<<m - 1, ij[2]>>][2]]),
          SumSeq([m \in 1..C |-> X[<<ij[1], m - 1>>][1] * Y[<<m - 1, ij[2]>>][2]
                                  + X[<<ij[1], m - 1>>][2] * Y[<<m - 1, ij[2]>>][1]])>>] @@ <<>>

CAdj(C, X) == [ij \in CIdx(C) |-> <<X[<<ij[2], ij[1]>>][1], -X[<<ij[2], ij[1]>>][2]>>] @@ <<>>

ForwardReturned == hist = <<"forward">> /\ "vs" \in DOMAIN cur

\* the reference matrix of the call at batch item b and bin k
RefMatrix(b, k) ==
    IF locals.b = NoValue THEN CEye(C0, 1) ELSE FullHerm(locals.b, b, k)

\* A vs = B vs ds and vs^H B vs = I at batch item b and bin k; cur.vs holds
\* vs * sqrt(scale), so the second equation reads vs^H B vs = scale * I
GenEigAt(b, k) ==
    LET A == FullHerm(Packed0, b, k)
        B == RefMatrix(b, k)
        V == FullAt(cur.vs, b, k)
        D == FullAt(cur.ds, b, k)
    IN  /\ CMul(C0, A, V) = CMul(C0, CMul(C0, B, V), D)
        /\ CMul(C0, CAdj(C0, V), CMul(C0, B, V)) = CEye(C0, cur.scale.at[<<b, k>>])

\* C3: for Hermitian packed a and positive definite b (the default identity
\* included), the pair (vs, ds) forward returns satisfies a vs = b vs ds and
\* vs^H b vs = I at every batch item and bin.
C3_GenEig ==
    (/\ ForwardReturned
     /\ DiagImagZero(Packed0)
     /\ (locals.b = NoValue \/ DiagImagZero(locals.b))) =>
        \A sl \in PackedSlices(Packed0) : GenEigAt(sl[1], sl[2])

\* C4: forward(a) with b absent returns what forward(a, b) returns for b the packed
\* identity, and the encoded reference g(full identity) is f(packed identity).
C4_DefaultB ==
    (hist = <<"forward">> /\ locals.b = NoValue) =>
        /\ cur = forward(Packed0, PackedEye(Packed0.shape), locals.flip).ret
        /\ ~IsError(cur) => locals.bsh = f(PackedEye(Packed0.shape))

\* forward returned a decomposition of a 2-channel input that is not a multiple of
\* the identity, with b absent
C4_Witness ==
    /\ ForwardReturned
    /\ locals.b = NoValue
    /\ P0 = 3
    /\ \E sl \in PackedSlices(Packed0) :
          \/ Re(Packed0, sl[1], sl[2], 1) # 0
          \/ Re(Packed0, sl[1], sl[2], 0) # Re(Packed0, sl[1], sl[2], 2)

LastCall == IF hist = <<>> THEN "none" ELSE hist[Len(hist)]

\* C7: when P is not a triangular number, f, forward and pos_def end in an error;
\* when P is triangular, the recovered channel count C satisfies C (C + 1) / 2 = P.
C7_NonTriangularFails ==
    /\ (LastCall \in {"f", "forward", "pos_def"} /\ ~IsTriangular(P0)) => IsError(cur)
    /\ IsTriangular(P0) => 2 * P0 = C0 * (C0 + 1)

\* forward was called, with a positive definite b, on an input whose packed count
\* is not triangular
C7_Witness ==
    /\ hist = <<"forward">>
    /\ ~IsTriangular(P0)
    /\ locals.b # NoValue
    /\ locals.b # Zeros(Packed0.shape)
    /\ IsError(cur)

\* C10: ds has shape [B, K, C, C, 2], its imaginary parts and its off-diagonal real
\* parts are zero and its i-th diagonal real part is the eigenvalue es[2i]; the
\* diagonal is ascending, and lists every eigenvalue once when es[2i] = es[2i+1].
C10_DsDecoding ==
    ForwardReturned =>
        /\ cur.ds.shape = <<Packed0.shape[1], Packed0.shape[3], C0, C0, 2>>
        /\ \A b \in 0..(Packed0.shape[1] - 1), k \in 0..(Packed0.shape[3] - 1),
              i \in 0..(C0 - 1), j \in 0..(C0 - 1) :
              /\ cur.ds.at[<<b, k, i, j, 1>>] = 0
              /\ i # j => cur.ds.at[<<b, k, i, j, 0>>] = 0
              /\ cur.ds.at[<<b, k, i, i, 0>>] = locals.es.at[<<b, k, 2 * i>>]
              /\ i < j => cur.ds.at[<<b, k, i, i, 0>>] <= cur.ds.at[<<b, k, j, j, 0>>]
              /\ locals.es.at[<<b, k, 2 * i>>] = locals.es.at[<<b, k, 2 * i + 1>>]
                    => \A m \in {2 * i, 2 * i + 1} :
                           locals.es.at[<<b, k, m>>] = cur.ds.at[<<b, k, i, i, 0>>]

\* forward returned for a 2-channel input with two different non-zero eigenvalues
C10_Witness ==
    /\ ForwardReturned
    /\ C0 = 2
    /\ \E sl \in PackedSlices(Packed0) :
          /\ locals.es.at[<<sl[1], sl[2], 0>>] # 0
          /\ locals.es.at[<<sl[1], sl[2], 2>>] # 0
          /\ locals.es.at[<<sl[1], sl[2], 0>>] # locals.es.at[<<sl[1], sl[2], 2>>]

---------------------------------------------------------------------------
(* Properties of convolve1d *)

ConvDirect ==
    convolve1d(orig.ws, locals.kernel, locals.padding, locals.stride, FALSE,
               locals.rotation_index)

ConvFft ==
    convolve1d(orig.ws, locals.kernel, locals.padding, locals.stride, TRUE,
               locals.rotation_index)

\* C6: for a rank-3 waveform, a (left, right) padding, stride 1 and rotation_index 0,
\* the direct and the FFT path return outputs of the same time length with equal
\* values at every position.
C6_PathsAgree ==
    (/\ hist = <<"convolve1d">>
     /\ Rank(orig.ws) = 3
     /\ locals.padding.tuple
     /\ locals.stride = 1
     /\ locals.rotation_index = 0) =>
        /\ IsTensor(ConvDirect)
        /\ IsTensor(ConvFft)
        /\ ConvDirect.shape[2] = ConvFft.shape[2]
        /\ ConvDirect.at = ConvFft.at

=============================================================================
